---- MODULE Spec2Model ----
(***************************************************************************)
(* A model of the OSKAR entry points oskar_evaluate_auto_power,            *)
(* oskar_sky_override_polarisation, oskar_mem_load_ascii and               *)
(* oskar_vis_create, of the canonical baseline enumeration, and of the     *)
(* baseline-parallel CPU correlator loop.                                  *)
(*                                                                         *)
(* The caller owns one status code which it hands to every entry point.    *)
(* Each action is one call of one entry point: the arguments are chosen    *)
(* from small sets, `call' records them together with the incoming status, *)
(* and the remaining variables hold what the call left behind.             *)
(***************************************************************************)
EXTENDS Integers, Sequences, FiniteSets, TLC

(***************************************************************************)
(* Bounds of the model.                                                    *)
(***************************************************************************)
MaxSources == 2
MaxStations == 3
MaxChannels == 2
MaxTimes == 1
\* A call of oskar_mem_load_ascii made between the other entry points reads
\* a file of at most ApiMaxLines lines into at most ApiMaxMem arrays.
ApiMaxLines == 1
ApiMaxMem == 1

\* Length of the Jones and output buffers handed to the auto-power wrapper.
BufLen == MaxSources

(***************************************************************************)
(* Status codes.  Zero is success; any other value is an error.            *)
(***************************************************************************)
OSKAR_SUCCESS == "0"
OSKAR_ERR_TYPE_MISMATCH == "OSKAR_ERR_TYPE_MISMATCH"
OSKAR_ERR_LOCATION_MISMATCH == "OSKAR_ERR_LOCATION_MISMATCH"
OSKAR_ERR_BAD_DATA_TYPE == "OSKAR_ERR_BAD_DATA_TYPE"
OSKAR_ERR_BAD_LOCATION == "OSKAR_ERR_BAD_LOCATION"
OSKAR_ERR_CUDA_NOT_AVAILABLE == "OSKAR_ERR_CUDA_NOT_AVAILABLE"
OSKAR_ERR_MEMORY_ALLOC_FAILURE == "OSKAR_ERR_MEMORY_ALLOC_FAILURE"
OSKAR_ERR_DIMENSION_MISMATCH == "OSKAR_ERR_DIMENSION_MISMATCH"
OSKAR_ERR_FILE_IO == "OSKAR_ERR_FILE_IO"
\* The code left in status by oskar_device_check_error after a failed launch.
CUDA_LAUNCH_ERROR == "CUDA_LAUNCH_ERROR"

(***************************************************************************)
(* Memory locations.  OSKAR_CL stands for every location tag that is       *)
(* neither OSKAR_CPU nor OSKAR_GPU.                                        *)
(***************************************************************************)
OSKAR_CPU == "OSKAR_CPU"
OSKAR_GPU == "OSKAR_GPU"
OSKAR_CL == "OSKAR_CL"
Locations == {OSKAR_CPU, OSKAR_GPU, OSKAR_CL}

(***************************************************************************)
(* Element types.  A type tag is a base type with the OSKAR_COMPLEX and    *)
(* OSKAR_MATRIX flags or-ed in (jones_type = type | OSKAR_COMPLEX;         *)
(* jones_type |= OSKAR_MATRIX).                                            *)
(***************************************************************************)
MemType(b, c, m) == [base |-> b, complex |-> c, matrix |-> m]
OSKAR_CHAR == MemType("OSKAR_CHAR", FALSE, FALSE)
OSKAR_INT == MemType("OSKAR_INT", FALSE, FALSE)
OSKAR_SINGLE == MemType("OSKAR_SINGLE", FALSE, FALSE)
OSKAR_DOUBLE == MemType("OSKAR_DOUBLE", FALSE, FALSE)
OSKAR_SINGLE_COMPLEX == MemType("OSKAR_SINGLE", TRUE, FALSE)
OSKAR_DOUBLE_COMPLEX == MemType("OSKAR_DOUBLE", TRUE, FALSE)
OSKAR_SINGLE_COMPLEX_MATRIX == MemType("OSKAR_SINGLE", TRUE, TRUE)
OSKAR_DOUBLE_COMPLEX_MATRIX == MemType("OSKAR_DOUBLE", TRUE, TRUE)

oskar_mem_type_is_double(t) == t.base = "OSKAR_DOUBLE"
oskar_mem_type_is_single(t) == t.base = "OSKAR_SINGLE"
oskar_mem_type_is_complex(t) == t.complex
oskar_mem_type_is_matrix(t) == t.matrix

\* The number of columns an array of this type takes from each row of an
\* ASCII file, which is the number of real components of an element.
NumColsNeeded(type) ==
    (IF oskar_mem_type_is_complex(type) THEN 2 ELSE 1)
        * (IF oskar_mem_type_is_matrix(type) THEN 4 ELSE 1)

AllTypes ==
    {OSKAR_CHAR, OSKAR_INT, OSKAR_SINGLE, OSKAR_DOUBLE,
     OSKAR_SINGLE_COMPLEX, OSKAR_DOUBLE_COMPLEX,
     OSKAR_SINGLE_COMPLEX_MATRIX, OSKAR_DOUBLE_COMPLEX_MATRIX}

(***************************************************************************)
(* State.                                                                  *)
(*   have_cuda  whether the build defines OSKAR_HAVE_CUDA                  *)
(*   status     the caller's status code                                   *)
(*   call       the last call: entry point, arguments, incoming status     *)
(*   ret        what the last call returned                                *)
(*   dst        the object the last call was given to write to, as the     *)
(*              call left it (call.dst is the object as it was handed in)  *)
(*   events     what the last call did, in order: kernels run, files       *)
(*              opened, allocations requested, elements stored             *)
(***************************************************************************)
VARIABLES have_cuda, status, call, ret, dst, events

apivars == <<have_cuda, status, call, ret, dst, events>>

NoCall == [fn |-> "none", in_status |-> OSKAR_SUCCESS]
Void == [kind |-> "void"]
NULL == [kind |-> "NULL"]
NoObject == [kind |-> "none"]
\* The process was terminated inside the call.
Crashed == [kind |-> "crashed"]

(***************************************************************************)
(* Buffers: a type tag, a location tag and the stored elements.            *)
(***************************************************************************)
Mem(t, l, d) == [type |-> t, location |-> l, data |-> d]
oskar_mem_type(m) == m.type
oskar_mem_location(m) == m.location
oskar_mem_length(m) == Len(m.data)

\* The Jones values and the previous contents of the output buffer.
JonesData == [i \in 1..BufLen |-> i + 1]
OutData == [i \in 1..BufLen |-> 0]

(***************************************************************************)
(* The eight inner kernels, oskar_evaluate_auto_power_{,scalar_}{,cuda_}   *)
(* {f,d}: each stores the auto-power of the first num_sources Jones        *)
(* elements into out.                                                      *)
(***************************************************************************)
KernelEvent(name, n) == [ev |-> "kernel", name |-> name, num_sources |-> n]

AutoPowerKernel(n, jones, out) ==
    [out EXCEPT !.data = [i \in 1..Len(out.data) |->
        IF i <= n THEN jones.data[i] * jones.data[i] ELSE out.data[i]]]

\* With the two precisions of the scalar kernels exchanged.
CpuKernelName_Swapped(type) ==
    CASE type = OSKAR_SINGLE_COMPLEX_MATRIX -> "oskar_evaluate_auto_power_f"
      [] type = OSKAR_DOUBLE_COMPLEX_MATRIX -> "oskar_evaluate_auto_power_d"
      [] type = OSKAR_SINGLE_COMPLEX -> "oskar_evaluate_auto_power_scalar_d"
      [] type = OSKAR_DOUBLE_COMPLEX -> "oskar_evaluate_auto_power_scalar_f"
      [] OTHER -> "default"

CpuKernelName(type) ==
    CASE type = OSKAR_SINGLE_COMPLEX_MATRIX -> "oskar_evaluate_auto_power_f"
      [] type = OSKAR_DOUBLE_COMPLEX_MATRIX -> "oskar_evaluate_auto_power_d"
      [] type = OSKAR_SINGLE_COMPLEX -> "oskar_evaluate_auto_power_scalar_f"
      [] type = OSKAR_DOUBLE_COMPLEX -> "oskar_evaluate_auto_power_scalar_d"
      [] OTHER -> "default"

GpuKernelName(type) ==
    CASE type = OSKAR_SINGLE_COMPLEX_MATRIX -> "oskar_evaluate_auto_power_cuda_f"
      [] type = OSKAR_DOUBLE_COMPLEX_MATRIX -> "oskar_evaluate_auto_power_cuda_d"
      [] type = OSKAR_SINGLE_COMPLEX -> "oskar_evaluate_auto_power_scalar_cuda_f"
      [] type = OSKAR_DOUBLE_COMPLEX -> "oskar_evaluate_auto_power_scalar_cuda_d"
      [] OTHER -> "default"

\* oskar_device_check_error: leaves a non-zero status alone, otherwise
\* stores the device's last error, which is zero when the launch worked.
oskar_device_check_error(st, launch_failed) ==
    IF st # OSKAR_SUCCESS THEN st
    ELSE IF launch_failed THEN CUDA_LAUNCH_ERROR ELSE OSKAR_SUCCESS

(***************************************************************************)
(* oskar_evaluate_auto_power(num_sources, jones, out, status).             *)
(* The result is the status, the output buffer and the events of the call. *)
(***************************************************************************)
AutoPowerResult(st, d, ev) == [status |-> st, dst |-> d, events |-> ev]

\* Without the check of the incoming status.
AutoPowerSafeToProceed_Unchecked(st) == TRUE

AutoPowerSafeToProceed(st) == st = OSKAR_SUCCESS

\* Without the comparison of the two types.
AutoPowerTypeCheck_Missing(jones, out) == FALSE

AutoPowerTypeCheck(jones, out) ==
    oskar_mem_type(jones) # oskar_mem_type(out)

AutoPowerLocationCheck(jones, out) ==
    oskar_mem_location(jones) # oskar_mem_location(out)

oskar_evaluate_auto_power(cuda, num_sources, jones, out, st, launch_failed) ==
    LET type == oskar_mem_type(jones)
        location == oskar_mem_location(jones)
    IN  IF ~AutoPowerSafeToProceed(st) THEN AutoPowerResult(st, out, <<>>)
        ELSE IF AutoPowerTypeCheck(jones, out)
            THEN AutoPowerResult(OSKAR_ERR_TYPE_MISMATCH, out, <<>>)
        ELSE IF AutoPowerLocationCheck(jones, out)
            THEN AutoPowerResult(OSKAR_ERR_LOCATION_MISMATCH, out, <<>>)
        ELSE IF location = OSKAR_CPU
            THEN IF CpuKernelName(type) = "default"
                 THEN AutoPowerResult(OSKAR_ERR_BAD_DATA_TYPE, out, <<>>)
                 ELSE AutoPowerResult(st,
                        AutoPowerKernel(num_sources, jones, out),
                        <<KernelEvent(CpuKernelName(type), num_sources)>>)
        ELSE IF location = OSKAR_GPU
            THEN IF ~cuda
                 THEN AutoPowerResult(OSKAR_ERR_CUDA_NOT_AVAILABLE, out, <<>>)
                 ELSE IF GpuKernelName(type) = "default"
                 THEN AutoPowerResult(OSKAR_ERR_BAD_DATA_TYPE, out, <<>>)
                 ELSE AutoPowerResult(
                        oskar_device_check_error(st, launch_failed),
                        AutoPowerKernel(num_sources, jones, out),
                        <<KernelEvent(GpuKernelName(type), num_sources)>>)
        ELSE AutoPowerResult(st, out, <<>>)

CallAutoPower ==
    /\ call.fn = "none"
    /\ \E num_sources \in 0..MaxSources, jt \in AllTypes, jl \in Locations,
          ot \in AllTypes, ol \in Locations, launch_failed \in BOOLEAN :
        LET jones == Mem(jt, jl, JonesData)
            out == Mem(ot, ol, OutData)
            r == oskar_evaluate_auto_power(have_cuda, num_sources, jones, out,
                                           status, launch_failed)
        IN  /\ call' = [fn |-> "oskar_evaluate_auto_power",
                        in_status |-> status, num_sources |-> num_sources,
                        jones |-> jones, dst |-> out]
            /\ status' = r.status
            /\ dst' = r.dst
            /\ events' = r.events
            /\ ret' = Void
            /\ UNCHANGED have_cuda

(***************************************************************************)
(* oskar_sky_override_polarisation(sky, mean_pol_fraction, ..., status).   *)
(* A sky model holds its precision, its location and the Stokes I, Q, U    *)
(* arrays.  q[i] and u[i] stand for pol_fraction * cos(2 * angle) and      *)
(* pol_fraction * sin(2 * angle) of source i, which the random generator   *)
(* decides; the clamp keeps them within [-1, 1].  0 and 1 stand for them.  *)
(***************************************************************************)
Sky(t, l, i, q, u) == [precision |-> t, location |-> l, I |-> i, Q |-> q, U |-> u]
oskar_sky_precision(sky) == sky.precision
oskar_sky_mem_location(sky) == sky.location
oskar_sky_num_sources(sky) == Len(sky.I)

PolFactors == {0, 1}

SkyResult(st, d, ev) == [status |-> st, dst |-> d, events |-> ev]

OverridePolarisationSafeToProceed(st) == st = OSKAR_SUCCESS

oskar_sky_override_polarisation(sky, mean_negative, q, u, st) ==
    LET n == oskar_sky_num_sources(sky)
        written == [sky EXCEPT !.Q = [i \in 1..n |-> q[i] * sky.I[i]],
                               !.U = [i \in 1..n |-> u[i] * sky.I[i]]]
    IN  IF ~OverridePolarisationSafeToProceed(st) THEN SkyResult(st, sky, <<>>)
        ELSE IF mean_negative THEN SkyResult(st, sky, <<>>)
        ELSE IF oskar_sky_mem_location(sky) = OSKAR_CPU
            THEN IF oskar_sky_precision(sky) \in {OSKAR_DOUBLE, OSKAR_SINGLE}
                 THEN SkyResult(st, written, <<[ev |-> "srand"]>>)
                 ELSE SkyResult(OSKAR_ERR_BAD_DATA_TYPE, sky, <<[ev |-> "srand"]>>)
        ELSE SkyResult(OSKAR_ERR_BAD_LOCATION, sky, <<>>)

SkyPrecisions == {OSKAR_SINGLE, OSKAR_DOUBLE}

CallOverridePolarisation ==
    /\ call.fn = "none"
    /\ \E n \in 0..MaxSources, t \in SkyPrecisions, l \in Locations,
          mean_negative \in BOOLEAN :
       \E q \in [1..n -> PolFactors], u \in [1..n -> PolFactors] :
        LET sky == Sky(t, l, [i \in 1..n |-> i], [i \in 1..n |-> 0],
                       [i \in 1..n |-> 0])
            r == oskar_sky_override_polarisation(sky, mean_negative, q, u, status)
        IN  /\ call' = [fn |-> "oskar_sky_override_polarisation",
                        in_status |-> status, mean_negative |-> mean_negative,
                        dst |-> sky]
            /\ status' = r.status
            /\ dst' = r.dst
            /\ events' = r.events
            /\ ret' = Void
            /\ UNCHANGED have_cuda

(***************************************************************************)
(* oskar_mem_create(type, location, num_elements, status): the handle is   *)
(* always returned.  With a non-zero status nothing is allocated.  The     *)
(* element count is a size_t, so a negative int arrives as a count no      *)
(* allocation can satisfy.  alloc_ok is whether the allocator has the      *)
(* memory; an empty buffer allocates nothing.                              *)
(***************************************************************************)
\* An element is the tuple of its real components; this is the zero one.
ZeroElement(t) == [k \in 1..NumColsNeeded(t) |-> 0]

Zeros(t, n) == [i \in 1..n |-> ZeroElement(t)]

CreateRequest(t, l, n) == [type |-> t, location |-> l, num_elements |-> n]

oskar_mem_create(cuda, t, l, n, st, alloc_ok) ==
    IF st # OSKAR_SUCCESS THEN [mem |-> Mem(t, l, <<>>), status |-> st]
    ELSE IF l = OSKAR_GPU /\ ~cuda
        THEN [mem |-> Mem(t, l, <<>>), status |-> OSKAR_ERR_CUDA_NOT_AVAILABLE]
    ELSE IF n < 0 \/ (n > 0 /\ ~alloc_ok)
        THEN [mem |-> Mem(t, l, <<>>), status |-> OSKAR_ERR_MEMORY_ALLOC_FAILURE]
    ELSE [mem |-> Mem(t, l, Zeros(t, n)), status |-> st]

(***************************************************************************)
(* oskar_vis_create(amp_type, location, num_channels, num_times,           *)
(*                  num_stations, status).                                 *)
(***************************************************************************)
\* C integer division, which truncates towards zero.
CDiv(a, b) == IF a >= 0 THEN a \div b ELSE -((-a) \div b)

\* With the diagonal counted: N(N+1)/2.
NumBaselines_WithAutos(num_stations) ==
    CDiv(num_stations * (num_stations + 1), 2)

NumBaselines(num_stations) == CDiv(num_stations * (num_stations - 1), 2)

NumBuffers == 17

\* The buffers asked for, with the amplitudes one per baseline and time.
VisBufferRequests_AmpsAsCoords(amp_type, type, location, num_channels, num_times, num_stations) ==
    LET num_baselines == NumBaselines(num_stations)
        num_coords == num_times * num_baselines
    IN  [k \in 1..NumBuffers |->
            IF k <= 3 THEN CreateRequest(OSKAR_CHAR, OSKAR_CPU, 0)
            ELSE IF k <= 13 THEN CreateRequest(type, location, num_stations)
            ELSE IF k <= 16 THEN CreateRequest(type, location, num_coords)
            ELSE CreateRequest(amp_type, location, num_coords)]

\* The buffers oskar_vis_create asks for, in the order it asks for them.
VisBufferRequests(amp_type, type, location, num_channels, num_times, num_stations) ==
    LET num_baselines == NumBaselines(num_stations)
        num_amps == num_channels * num_times * num_baselines
        num_coords == num_times * num_baselines
    IN  [k \in 1..NumBuffers |->
            IF k <= 3 THEN CreateRequest(OSKAR_CHAR, OSKAR_CPU, 0)
            ELSE IF k <= 13 THEN CreateRequest(type, location, num_stations)
            ELSE IF k <= 16 THEN CreateRequest(type, location, num_coords)
            ELSE CreateRequest(amp_type, location, num_amps)]

\* The first of the requests that oskar_mem_create fails, given a zero
\* status; buffer number buf_fail is the one the allocator cannot satisfy.
\* NumBuffers + 1 when every request succeeds.
FirstFailure(cuda, reqs, buf_fail) ==
    LET failing == {k \in 1..NumBuffers :
            oskar_mem_create(cuda, reqs[k].type, reqs[k].location,
                             reqs[k].num_elements, OSKAR_SUCCESS,
                             k # buf_fail).status # OSKAR_SUCCESS}
    IN  IF failing = {} THEN NumBuffers + 1
        ELSE CHOOSE k \in failing : \A j \in failing : k <= j

\* The status after the first k requests: status is handed from each
\* oskar_mem_create to the next, so it is the incoming status, or else the
\* error of the first failing request.
StatusAfter(cuda, reqs, k, st, first, buf_fail) ==
    IF st # OSKAR_SUCCESS THEN st
    ELSE IF first <= k
        THEN oskar_mem_create(cuda, reqs[first].type, reqs[first].location,
                              reqs[first].num_elements, st,
                              first # buf_fail).status
    ELSE st

VisBuffers(cuda, reqs, st, buf_fail) ==
    LET first == FirstFailure(cuda, reqs, buf_fail)
    IN  [k \in 1..NumBuffers |->
            oskar_mem_create(cuda, reqs[k].type, reqs[k].location,
                             reqs[k].num_elements,
                             StatusAfter(cuda, reqs, k - 1, st, first, buf_fail),
                             k # buf_fail).mem]

\* The requests as events: each with the status it left behind.
VisCreateEvents(cuda, reqs, st, buf_fail) ==
    LET first == FirstFailure(cuda, reqs, buf_fail)
    IN  [k \in 1..NumBuffers |->
            [ev |-> "oskar_mem_create", type |-> reqs[k].type,
             location |-> reqs[k].location,
             num_elements |-> reqs[k].num_elements,
             status |-> StatusAfter(cuda, reqs, k, st, first, buf_fail)]]

VisResult(st, r, ev) == [status |-> st, ret |-> r, events |-> ev]

\* The precision of the real arrays, or "bad" when amp_type is rejected.
VisCheckType(amp_type) ==
    IF oskar_mem_type_is_double(amp_type) THEN OSKAR_DOUBLE
    ELSE IF oskar_mem_type_is_single(amp_type) THEN OSKAR_SINGLE
    ELSE MemType("bad", FALSE, FALSE)

\* Without the test that the amplitude type is complex.
VisCheckComplex_Skipped(amp_type) == TRUE

VisCheckComplex(amp_type) == oskar_mem_type_is_complex(amp_type)

VisCheckLocation(location) == location # OSKAR_GPU /\ location # OSKAR_CPU

MetaData ==
    [freq_start_hz |-> 0, freq_inc_hz |-> 0, channel_bandwidth_hz |-> 0,
     time_start_mjd_utc |-> 0, time_inc_sec |-> 0, time_average_sec |-> 0,
     phase_centre_ra_deg |-> 0, phase_centre_dec_deg |-> 0,
     telescope_lon_deg |-> 0, telescope_lat_deg |-> 0,
     telescope_alt_metres |-> 0]

\* malloc_ok: whether malloc(sizeof(oskar_Vis)) succeeds.  When it fails
\* the stores through vis are undefined: either the process is terminated
\* at the first store (survives = FALSE), or the stores are lost and the
\* function runs on to return the null pointer.
oskar_vis_create(cuda, amp_type, location, num_channels, num_times, num_stations, st, malloc_ok, survives, buf_fail) ==
    LET type == VisCheckType(amp_type)
        reqs == VisBufferRequests(amp_type, type, location, num_channels,
                                  num_times, num_stations)
        bufs == VisBuffers(cuda, reqs, st, buf_fail)
        evs == VisCreateEvents(cuda, reqs, st, buf_fail)
        st_end == evs[NumBuffers].status
        vis == [kind |-> "oskar_Vis",
                num_stations |-> num_stations,
                num_channels |-> num_channels,
                num_times |-> num_times,
                num_baselines |-> NumBaselines(num_stations),
                meta |-> MetaData,
                buffers |-> bufs]
    IN  IF type.base = "bad"
            THEN VisResult(OSKAR_ERR_BAD_DATA_TYPE, NULL, <<>>)
        ELSE IF ~VisCheckComplex(amp_type)
            THEN VisResult(OSKAR_ERR_BAD_DATA_TYPE, NULL, <<>>)
        ELSE IF VisCheckLocation(location)
            THEN VisResult(OSKAR_ERR_BAD_LOCATION, NULL, <<>>)
        ELSE IF malloc_ok
            THEN VisResult(st_end, vis, <<[ev |-> "malloc", ok |-> TRUE]>> \o evs)
        ELSE IF ~survives
            THEN VisResult(st, Crashed,
                    <<[ev |-> "malloc", ok |-> FALSE], [ev |-> "null_write"]>>)
        ELSE VisResult(st_end, NULL,
                    <<[ev |-> "malloc", ok |-> FALSE], [ev |-> "null_write"]>>
                    \o evs)

\* The outcomes of the allocator are only drawn where the call gets as far
\* as asking it: malloc once the arguments are accepted, the buffers'
\* storage when status is still zero.
VisArgumentsAccepted(amp_type, location) ==
    /\ VisCheckType(amp_type).base # "bad"
    /\ VisCheckComplex(amp_type)
    /\ ~VisCheckLocation(location)

CallVisCreate ==
    /\ call.fn = "none"
    /\ \E amp_type \in AllTypes, location \in Locations,
          num_channels \in -1..MaxChannels, num_times \in -1..MaxTimes,
          num_stations \in -1..MaxStations :
         \E malloc_ok \in (IF VisArgumentsAccepted(amp_type, location)
                            THEN BOOLEAN ELSE {TRUE}),
            buf_fail \in (IF VisArgumentsAccepted(amp_type, location)
                             /\ status = OSKAR_SUCCESS
                           THEN 0..NumBuffers ELSE {0}) :
           \E survives \in (IF malloc_ok THEN {TRUE} ELSE BOOLEAN) :
             \E r \in {oskar_vis_create(have_cuda, amp_type, location,
                                        num_channels, num_times, num_stations,
                                        status, malloc_ok, survives,
                                        buf_fail)} :
               /\ call' = [fn |-> "oskar_vis_create", in_status |-> status,
                           amp_type |-> amp_type, location |-> location,
                           num_channels |-> num_channels, num_times |-> num_times,
                           num_stations |-> num_stations]
               /\ status' = r.status
               /\ ret' = r.ret
               /\ events' = r.events
               /\ dst' = NoObject
               /\ UNCHANGED have_cuda

(***************************************************************************)
(* oskar_mem_load_ascii(filename, num_mem, status, mem_1, default_1, ...). *)
(*                                                                         *)
(* A file is its lines and a line is the numbers oskar_string_to_array_d   *)
(* finds on it.  Numbers are multiples of one half and are held doubled,   *)
(* so that the rounding of the integer store has something to round.       *)
(* A default string is held the same way.                                  *)
(***************************************************************************)
\* oskar_string_to_array_d(str, n, data): at most n numbers are taken.
oskar_string_to_array_d(str, n) == IF Len(str) <= n THEN Len(str) ELSE n

\* The types store_data has a case for.
StoreTypes ==
    {OSKAR_SINGLE, OSKAR_DOUBLE, OSKAR_SINGLE_COMPLEX, OSKAR_DOUBLE_COMPLEX,
     OSKAR_SINGLE_COMPLEX_MATRIX, OSKAR_DOUBLE_COMPLEX_MATRIX, OSKAR_INT}

\* The element built from the first columns of the row whatever c is.
StoredElement_FirstColumns(type, row_data, c) ==
    IF type = OSKAR_INT THEN <<(row_data[1] + 1) \div 2>>
    ELSE [k \in 1..NumColsNeeded(type) |-> row_data[k]]

\* The element store_data builds from row_data[c + 1 .. c + width]
\* (c counts from zero, the sequence from one).
StoredElement(type, row_data, c) ==
    IF type = OSKAR_INT THEN <<(row_data[c + 1] + 1) \div 2>>
    ELSE [k \in 1..NumColsNeeded(type) |-> row_data[c + k]]

\* oskar_mem_realloc(mem, n, status): nothing with a non-zero status;
\* otherwise the first elements are kept and the rest are zero.
oskar_mem_realloc(mem, n, st, alloc_ok) ==
    IF st # OSKAR_SUCCESS THEN [mem |-> mem, status |-> st]
    ELSE IF n > Len(mem.data) /\ ~alloc_ok
        THEN [mem |-> mem, status |-> OSKAR_ERR_MEMORY_ALLOC_FAILURE]
    ELSE [mem |-> [mem EXCEPT !.data = [i \in 1..n |->
                    IF i <= Len(mem.data) THEN mem.data[i]
                    ELSE ZeroElement(mem.type)]],
          status |-> st]

\* The amount the arrays are grown by beyond the current row.
GrowBy == 100

(***************************************************************************)
(* set_up_handles_and_defaults.  The state of its loop: the status, the    *)
(* handles to CPU memory, the default row (an entry is Unset, a number no   *)
(* file and no default string holds, where no default was given) and the   *)
(* column counts.                                                          *)
(***************************************************************************)
Unset == -1

SetUpStart(st) ==
    [status |-> st, mem_handle |-> <<>>, row_defaults |-> <<>>,
     num_cols_min |-> 0, num_cols_max |-> 0]

\* The sanity checks on defaults left out.
DefaultsCheck_Skipped(num_defaults, needed, min, max, st) == st

\* The sanity checks on defaults: the status they leave.
DefaultsCheck(num_defaults, needed, min, max, st) ==
    IF num_defaults = 0
    THEN (IF min # max THEN OSKAR_ERR_DIMENSION_MISMATCH ELSE st)
    ELSE IF num_defaults # needed THEN OSKAR_ERR_TYPE_MISMATCH
    ELSE st

\* One pass of the loop, for array mem with default string def.
SetUpOne(s, mem, def, cuda) ==
    LET handle == IF oskar_mem_location(mem) # OSKAR_CPU
                  THEN oskar_mem_create(cuda, oskar_mem_type(mem), OSKAR_CPU,
                                        oskar_mem_length(mem), s.status, TRUE)
                  ELSE [mem |-> mem, status |-> s.status]
        needed == NumColsNeeded(oskar_mem_type(mem))
        num_defaults == oskar_string_to_array_d(def, needed)
        max == s.num_cols_max + needed
        min == IF num_defaults = 0 THEN s.num_cols_min + needed
               ELSE s.num_cols_min
        defaults == s.row_defaults \o
            [k \in 1..needed |-> IF k <= num_defaults THEN def[k] ELSE Unset]
    IN  IF s.status # OSKAR_SUCCESS THEN s
        ELSE IF handle.status # OSKAR_SUCCESS
            THEN [s EXCEPT !.status = handle.status,
                           !.mem_handle = Append(@, handle.mem)]
        ELSE [status |-> DefaultsCheck(num_defaults, needed, min, max,
                                       s.status),
              mem_handle |-> Append(s.mem_handle, handle.mem),
              row_defaults |-> defaults,
              num_cols_min |-> min,
              num_cols_max |-> max]

RECURSIVE set_up_handles_and_defaults(_, _, _, _)
set_up_handles_and_defaults(args, i, st, cuda) ==
    IF i = 0 THEN SetUpStart(st)
    ELSE SetUpOne(set_up_handles_and_defaults(args, i - 1, st, cuda),
                  args[i].mem, args[i].def, cuda)

(***************************************************************************)
(* The loop over the lines of the file.  Its state: the status, the        *)
(* handles, the row counter, the column counter of the row being stored    *)
(* and the events so far.  grow_fail is the row index at which the         *)
(* allocator refuses to grow an array (-1: never).                         *)
(***************************************************************************)
\* store_data for array i at row r, column c.
store_data(s, i, r, c, row_data) ==
    LET mem == s.mem_handle[i]
        type == oskar_mem_type(mem)
    IN  IF type \in StoreTypes
        THEN [s EXCEPT
                !.mem_handle[i].data[r + 1] = StoredElement(type, row_data, c),
                !.col_index = c + NumColsNeeded(type),
                !.events = Append(@, [ev |-> "store", array |-> i, row |-> r,
                                      col |-> c, length |-> Len(mem.data),
                                      status |-> s.status])]
        ELSE [s EXCEPT !.status = OSKAR_ERR_BAD_DATA_TYPE]

\* An array taken to be big enough when it ends just before the row.
TooShort_ByOne(mem, r) == oskar_mem_length(mem) < r

\* Whether the array is not big enough to hold the row.
TooShort(mem, r) == oskar_mem_length(mem) <= r

\* The body of the loop over the arrays, for array i; s.broken is set by
\* the break that follows a failed growth.
StoreArray(s, i, row_data, grow_fail) ==
    LET r == s.row_index
        grown == oskar_mem_realloc(s.mem_handle[i], r + GrowBy, s.status,
                                   r # grow_fail)
        t == IF TooShort(s.mem_handle[i], r)
             THEN [s EXCEPT !.mem_handle[i] = grown.mem,
                            !.status = grown.status,
                            !.events = Append(@, [ev |-> "realloc",
                                array |-> i, num_elements |-> r + GrowBy,
                                status |-> grown.status])]
             ELSE s
    IN  IF s.broken THEN s
        ELSE IF TooShort(s.mem_handle[i], r)
                /\ t.status # OSKAR_SUCCESS
            THEN [t EXCEPT !.broken = TRUE]
        ELSE store_data(t, i, r, t.col_index, row_data)

RECURSIVE StoreArrays(_, _, _, _)
StoreArrays(s, i, row_data, grow_fail) ==
    IF i = 0 THEN [s EXCEPT !.col_index = 0, !.broken = FALSE]
    ELSE StoreArray(StoreArrays(s, i - 1, row_data, grow_fail), i, row_data,
                    grow_fail)

\* The copy of a default into column c of the row (c counts from zero).
DefaultEvent(r, c, value) ==
    [ev |-> "default", row |-> r, col |-> c, value |-> <<value>>]

\* One pass of the loop over the lines in which a line that is skipped
\* takes up a row all the same.
LoadLine_CountsSkipped(s, line, setup, grow_fail) ==
    LET num_cols_read == oskar_string_to_array_d(line, setup.num_cols_max)
        row_data == [k \in 1..setup.num_cols_max |->
                        IF k <= num_cols_read THEN line[k]
                        ELSE setup.row_defaults[k]]
        copied == [k \in 1..(setup.num_cols_max - num_cols_read) |->
                    DefaultEvent(s.row_index, num_cols_read + k - 1,
                                 setup.row_defaults[num_cols_read + k])]
        stored == StoreArrays([s EXCEPT !.events = @ \o copied],
                              Len(s.mem_handle), row_data, grow_fail)
    IN  IF s.status # OSKAR_SUCCESS THEN s
        ELSE IF num_cols_read < setup.num_cols_min
            THEN [s EXCEPT !.row_index = @ + 1]
        ELSE [stored EXCEPT !.row_index = @ + 1]

\* One pass of the loop over the lines, for the given line.
LoadLine(s, line, setup, grow_fail) ==
    LET num_cols_read == oskar_string_to_array_d(line, setup.num_cols_max)
        row_data == [k \in 1..setup.num_cols_max |->
                        IF k <= num_cols_read THEN line[k]
                        ELSE setup.row_defaults[k]]
        copied == [k \in 1..(setup.num_cols_max - num_cols_read) |->
                    DefaultEvent(s.row_index, num_cols_read + k - 1,
                                 setup.row_defaults[num_cols_read + k])]
        stored == StoreArrays([s EXCEPT !.events = @ \o copied],
                              Len(s.mem_handle), row_data, grow_fail)
    IN  IF s.status # OSKAR_SUCCESS THEN s
        ELSE IF num_cols_read < setup.num_cols_min THEN s
        ELSE [stored EXCEPT !.row_index = @ + 1]

RECURSIVE LoadLines(_, _, _, _, _)
LoadLines(s, lines, k, setup, grow_fail) ==
    IF k = 0 THEN s
    ELSE LoadLine(LoadLines(s, lines, k - 1, setup, grow_fail), lines[k],
                  setup, grow_fail)

\* The final resize of every handle to the number of rows.
FinalResize(s) ==
    [s EXCEPT !.mem_handle = [i \in 1..Len(s.mem_handle) |->
        oskar_mem_realloc(s.mem_handle[i], s.row_index, s.status, TRUE).mem]]

\* The arrays as the call leaves them: an array in CPU memory is its own
\* handle; any other array receives the handle's elements by oskar_mem_copy,
\* which does nothing with a non-zero status.  An array the set-up never
\* reached is untouched.
CopyBack(args, s) ==
    [i \in 1..Len(args) |->
        IF i > Len(s.mem_handle) THEN args[i].mem
        ELSE IF oskar_mem_location(args[i].mem) # OSKAR_CPU
        THEN IF s.status = OSKAR_SUCCESS
             THEN [args[i].mem EXCEPT !.data = s.mem_handle[i].data]
             ELSE args[i].mem
        ELSE s.mem_handle[i]]

LoadResult(st, n, d, ev) ==
    [status |-> st, ret |-> [kind |-> "size_t", value |-> n],
     dst |-> [kind |-> "arrays", mem |-> d], events |-> ev]

LoadAsciiSafeToProceed(st) == st = OSKAR_SUCCESS

FopenEvent(ok) == [ev |-> "fopen", ok |-> ok]

\* file_exists: whether fopen succeeds.  alloc_fail: which of the two
\* callocs fails, that of mem_handle or that of row_data, if any.
oskar_mem_load_ascii(cuda, file_exists, lines, args, st, alloc_fail, grow_fail) ==
    LET given == [i \in 1..Len(args) |-> args[i].mem]
        st0 == IF alloc_fail = "mem_handle"
               THEN OSKAR_ERR_MEMORY_ALLOC_FAILURE ELSE st
        setup == set_up_handles_and_defaults(args, Len(args), st0, cuda)
        st1 == IF alloc_fail = "row_data"
               THEN OSKAR_ERR_MEMORY_ALLOC_FAILURE ELSE setup.status
        start == [status |-> st1, mem_handle |-> setup.mem_handle,
                  row_index |-> 0, col_index |-> 0, broken |-> FALSE,
                  events |-> <<FopenEvent(TRUE)>>]
        loaded == LoadLines(start, lines, Len(lines), setup, grow_fail)
        final == FinalResize(loaded)
    IN  IF ~LoadAsciiSafeToProceed(st) THEN LoadResult(st, 0, given, <<>>)
        ELSE IF ~file_exists
            THEN LoadResult(OSKAR_ERR_FILE_IO, 0, given, <<FopenEvent(FALSE)>>)
        ELSE IF alloc_fail = "mem_handle"
            THEN LoadResult(loaded.status, loaded.row_index, given,
                            loaded.events)
        ELSE LoadResult(final.status, final.row_index, CopyBack(args, final),
                        final.events)

(***************************************************************************)
(* The files and argument lists the calls are made with.                   *)
(***************************************************************************)
\* The numbers of columns on a line, the element types of the arrays and
\* the default strings (none, "2.0" or "2.0 3.0").
LineLengths == {1, 3}
LoadTypes == {OSKAR_DOUBLE, OSKAR_SINGLE_COMPLEX, OSKAR_CHAR}
Defaults == {<<>>, <<4>>, <<4, 6>>}

\* A line of n numbers: 0.5, 1.5, ... (doubled: 1, 3, ...).
Line(n) == [k \in 1..n |-> 2 * k - 1]

Lines == {Line(n) : n \in LineLengths}

\* The files of at most max_lines lines.
Files(max_lines) == UNION {[1..n -> Lines] : n \in 0..max_lines}

\* The argument lists of at most max_mem arrays, each with its default
\* string; the arrays of a list share their location and initial length.
ArgLists(location, length, max_mem) ==
    UNION {[1..n -> {[mem |-> Mem(t, location, Zeros(t, length)), def |-> d] :
                        t \in LoadTypes, d \in Defaults}] : n \in 1..max_mem}

\* Where the arrays handed over can be: an array in GPU memory exists only
\* where CUDA does.
ArrayLocations(cuda) == IF cuda THEN {OSKAR_CPU, OSKAR_GPU} ELSE {OSKAR_CPU}

\* The outcomes of the allocator are only drawn where the call gets as far
\* as asking it.
LoadAsciiCall(max_lines, max_mem) ==
    /\ call.fn = "none"
    /\ \E file_exists \in BOOLEAN, location \in ArrayLocations(have_cuda),
          length \in 0..1 :
         \E lines \in (IF file_exists THEN Files(max_lines) ELSE {<<>>}),
            args \in ArgLists(location, length, max_mem),
            alloc_fail \in (IF file_exists /\ status = OSKAR_SUCCESS
                            THEN {"none", "mem_handle", "row_data"}
                            ELSE {"none"}),
            grow_fail \in (IF file_exists /\ status = OSKAR_SUCCESS
                           THEN -1..(max_lines - 1) ELSE {-1}) :
           \E r \in {oskar_mem_load_ascii(have_cuda, file_exists, lines, args,
                                          status, alloc_fail, grow_fail)} :
             /\ call' = [fn |-> "oskar_mem_load_ascii", in_status |-> status,
                         file_exists |-> file_exists, lines |-> lines,
                         args |-> args]
             /\ status' = r.status
             /\ ret' = r.ret
             /\ dst' = r.dst
             /\ events' = r.events
             /\ UNCHANGED have_cuda

CallLoadAscii == LoadAsciiCall(ApiMaxLines, ApiMaxMem)

(***************************************************************************)
(* Loading whole files.  A program that does nothing but load a table      *)
(* starts with a status of zero, writes a file of at most LoadMaxLines     *)
(* lines, creates at most LoadMaxMem arrays and calls                      *)
(* oskar_mem_load_ascii; having looked at the result it starts over.       *)
(* Line p of a file holds the numbers 10p + 0.5, 10p + 1.5, ..., so that   *)
(* no two lines hold the same number; a default string holds 51, 52, ...   *)
(***************************************************************************)
LoadMaxLines == 2
LoadMaxMem == 2

FileLineLengths == {0, 1, 3}
FileTypes ==
    {OSKAR_DOUBLE, OSKAR_INT, OSKAR_SINGLE_COMPLEX,
     OSKAR_DOUBLE_COMPLEX_MATRIX, OSKAR_CHAR}

LineAt(p, n) == [k \in 1..n |-> 2 * (10 * p + k) - 1]

DefaultOf(n) == [k \in 1..n |-> 2 * (50 + k)]

\* The files of at most max_lines lines.
NumberedFiles(max_lines) ==
    UNION {{[p \in 1..n |-> LineAt(p, len[p])] :
                len \in [1..n -> FileLineLengths]} : n \in 0..max_lines}

\* The default strings an array of type t is given with: none or one for
\* every column for a real array; none, one for every column or one for the
\* first column only for a complex array; one for every column for a
\* matrix array (no line is long enough to fill one); none otherwise.
FileDefaults(t) ==
    CASE t = OSKAR_DOUBLE -> {<<>>, DefaultOf(1)}
      [] t = OSKAR_SINGLE_COMPLEX -> {<<>>, DefaultOf(1), DefaultOf(2)}
      [] t = OSKAR_DOUBLE_COMPLEX_MATRIX -> {DefaultOf(8)}
      [] OTHER -> {<<>>}

FileArgs(location, length) ==
    UNION {{[mem |-> Mem(t, location, Zeros(t, length)), def |-> d] :
                d \in FileDefaults(t)} : t \in FileTypes}

FileArgLists(location, length, max_mem) ==
    UNION {[1..n -> FileArgs(location, length)] : n \in 1..max_mem}

\* What the allocator does during the call: it serves every request, or it
\* refuses one of the two callocs, or it refuses to grow an array at one row.
Allocators(max_lines) ==
    {[alloc_fail |-> a, grow_fail |-> -1] :
        a \in {"none", "mem_handle", "row_data"}}
        \cup {[alloc_fail |-> "none", grow_fail |-> g] :
                g \in 0..(max_lines - 1)}

CallLoadAsciiFile ==
    /\ call.fn = "none"
    /\ status = OSKAR_SUCCESS
    /\ \E location \in ArrayLocations(have_cuda), length \in 0..1 :
         \E lines \in NumberedFiles(LoadMaxLines),
            args \in FileArgLists(location, length, LoadMaxMem),
            a \in Allocators(LoadMaxLines) :
           \E r \in {oskar_mem_load_ascii(have_cuda, TRUE, lines, args,
                                          status, a.alloc_fail, a.grow_fail)} :
             /\ call' = [fn |-> "oskar_mem_load_ascii", in_status |-> status,
                         file_exists |-> TRUE, lines |-> lines,
                         args |-> args, allocator |-> a]
             /\ status' = r.status
             /\ ret' = r.ret
             /\ dst' = r.dst
             /\ events' = r.events
             /\ UNCHANGED have_cuda

\* The program starts over with a status of zero.
StartOver ==
    /\ call.fn # "none"
    /\ call' = NoCall
    /\ status' = OSKAR_SUCCESS
    /\ ret' = Void
    /\ dst' = NoObject
    /\ events' = <<>>
    /\ UNCHANGED have_cuda

(***************************************************************************)
(* The caller moves on to its next call, keeping its status code.  A       *)
(* process that was terminated makes no further call.                      *)
(***************************************************************************)
Continue ==
    /\ call.fn # "none"
    /\ ret # Crashed
    /\ call' = NoCall
    /\ ret' = Void
    /\ dst' = NoObject
    /\ events' = <<>>
    /\ UNCHANGED <<have_cuda, status>>

ApiInit ==
    /\ have_cuda \in BOOLEAN
    /\ status = OSKAR_SUCCESS
    /\ call = NoCall
    /\ ret = Void
    /\ dst = NoObject
    /\ events = <<>>

\* No call has been made and none is made.
ApiIdle ==
    /\ have_cuda = FALSE
    /\ status = OSKAR_SUCCESS
    /\ call = NoCall
    /\ ret = Void
    /\ dst = NoObject
    /\ events = <<>>

(***************************************************************************)
(* The canonical baseline order: the station pairs (i, j), i < j, taken    *)
(* for i = 0..N-2, for j = i+1..N-1, each given the next index.  The loop  *)
(* is that of oskar_convert_station_uvw_to_baseline_uvw; the count of      *)
(* baselines is computed beforehand, as oskar_vis_create and the           *)
(* correlator benchmark compute it.                                        *)
(***************************************************************************)
MaxEnumStations == 9

VARIABLES bl_num_stations, bl_pc, bl_i, bl_j, bl_b, bl_index,
          bl_num_baselines, bl_num_vis

blvars == <<bl_num_stations, bl_pc, bl_i, bl_j, bl_b, bl_index,
            bl_num_baselines, bl_num_vis>>

\* int num_vis = num_stations * (num_stations-1) / 2;
NumVis(num_stations) == CDiv(num_stations * (num_stations - 1), 2)

BaselineInit ==
    /\ bl_num_stations \in 0..MaxEnumStations
    /\ bl_pc = "count"
    /\ bl_i = 0
    /\ bl_j = 1
    /\ bl_b = 0
    /\ bl_index = {}
    /\ bl_num_baselines = 0
    /\ bl_num_vis = 0

BaselineIdle ==
    /\ bl_num_stations = 0
    /\ bl_pc = "off"
    /\ bl_i = 0
    /\ bl_j = 1
    /\ bl_b = 0
    /\ bl_index = {}
    /\ bl_num_baselines = 0
    /\ bl_num_vis = 0

\* The sizes are worked out from the number of stations.
BaselineCount ==
    /\ bl_pc = "count"
    /\ bl_num_baselines' = NumBaselines(bl_num_stations)
    /\ bl_num_vis' = NumVis(bl_num_stations)
    /\ bl_pc' = "loop"
    /\ UNCHANGED <<bl_num_stations, bl_i, bl_j, bl_b, bl_index>>

\* One pass of the inner loop body: pair (i, j) gets index b.
BaselineStep ==
    /\ bl_pc = "loop"
    /\ bl_i < bl_num_stations - 1
    /\ bl_index' = bl_index \cup {[b |-> bl_b, i |-> bl_i, j |-> bl_j]}
    /\ bl_b' = bl_b + 1
    /\ IF bl_j + 1 < bl_num_stations
         THEN bl_j' = bl_j + 1 /\ bl_i' = bl_i
         ELSE bl_i' = bl_i + 1 /\ bl_j' = bl_i + 2
    /\ UNCHANGED <<bl_num_stations, bl_pc, bl_num_baselines, bl_num_vis>>

\* The outer loop ends.
BaselineDone ==
    /\ bl_pc = "loop"
    /\ ~(bl_i < bl_num_stations - 1)
    /\ bl_pc' = "done"
    /\ UNCHANGED <<bl_num_stations, bl_i, bl_j, bl_b, bl_index,
                   bl_num_baselines, bl_num_vis>>

(***************************************************************************)
(* The CPU path of the correlator: the loop over the baselines is shared   *)
(* out among worker threads.  A worker takes a station pair nobody has     *)
(* taken, sums the products Jones(i,s) . Jones(j,s)^H over the sources s   *)
(* in ascending order into an accumulator of its own, and stores the sum   *)
(* in the output at the pair's canonical index.                            *)
(*                                                                         *)
(* A sum is held as the sequence of its terms in the order they were       *)
(* added, so that two orders of accumulation are two different values, as  *)
(* they are in floating point.                                             *)
(***************************************************************************)
CorrStations == 3
CorrSources == 2
CorrWorkers == 2

VARIABLES cw_num_stations, cw_num_sources, cw_todo, cw_worker, cw_out

cwvars == <<cw_num_stations, cw_num_sources, cw_todo, cw_worker, cw_out>>

Workers == 1..CorrWorkers

\* The term a source s adds to the sum of baseline (i, j).
Term(i, j, s) == <<i, j, s>>

WorkerIdle == [pc |-> "idle", i |-> 0, j |-> 0, s |-> 0, acc |-> <<>>]

\* A slot of the output: its value and the number of stores made to it.
EmptySlot == [value |-> <<>>, stores |-> 0]

\* With the offset within the row taken from column 0.
BaselineIndex_RowOverlap(i, j, num_stations) ==
    CDiv(i * (2 * num_stations - i - 1), 2) + j

\* The index of pair (i, j) in the canonical order: the pairs of the rows
\* before row i, then the pairs of row i before column j.
BaselineIndex(i, j, num_stations) ==
    CDiv(i * (2 * num_stations - i - 1), 2) + (j - i - 1)

CorrelateInit ==
    /\ cw_num_stations \in 0..CorrStations
    /\ cw_num_sources \in 0..CorrSources
    /\ cw_todo = {p \in (0..cw_num_stations - 1) \X (0..cw_num_stations - 1) :
                    p[1] < p[2]}
    /\ cw_worker = [w \in Workers |-> WorkerIdle]
    /\ cw_out = [b \in 0..(NumBaselines(cw_num_stations) - 1) |-> EmptySlot]

CorrelateIdle ==
    /\ cw_num_stations = 0
    /\ cw_num_sources = 0
    /\ cw_todo = {}
    /\ cw_worker = [w \in Workers |-> WorkerIdle]
    /\ cw_out = <<>>

\* 2. For each station pair: a. initialise the accumulator to zero.
TakeBaseline(w) ==
    /\ cw_worker[w].pc = "idle"
    /\ \E p \in cw_todo :
         /\ cw_todo' = cw_todo \ {p}
         /\ cw_worker' = [cw_worker EXCEPT ![w] =
                [pc |-> "sources", i |-> p[1], j |-> p[2], s |-> 0,
                 acc |-> <<>>]]
    /\ UNCHANGED <<cw_num_stations, cw_num_sources, cw_out>>

\* b. For each source s: accumulate into the baseline's running sum.
Accumulate(w) ==
    LET me == cw_worker[w]
    IN  /\ me.pc = "sources"
        /\ me.s < cw_num_sources
        /\ cw_worker' = [cw_worker EXCEPT ![w] =
                [me EXCEPT !.acc = Append(me.acc, Term(me.i, me.j, me.s)),
                           !.s = me.s + 1]]
        /\ UNCHANGED <<cw_num_stations, cw_num_sources, cw_todo, cw_out>>

\* c. Write the accumulated value into output at the canonical index.
WriteBaseline(w) ==
    LET me == cw_worker[w]
        b == BaselineIndex(me.i, me.j, cw_num_stations)
    IN  /\ me.pc = "sources"
        /\ ~(me.s < cw_num_sources)
        /\ cw_out' = [cw_out EXCEPT ![b] =
                [value |-> me.acc, stores |-> @.stores + 1]]
        /\ cw_worker' = [cw_worker EXCEPT ![w] = WorkerIdle]
        /\ UNCHANGED <<cw_num_stations, cw_num_sources, cw_todo>>

(***************************************************************************)
(* The settings types.  One settings object is under study at a time:      *)
(* sv_obj holds its fields and sv_call the last call made on it.           *)
(*                                                                         *)
(* A string is held as what the parsers make of it: the number it spells   *)
(* (kind "number"), the words MIN and MAX, or anything else (kind "junk"), *)
(* together with whether the character 'e' occurs in it.  Numbers are      *)
(* counted in units of the least difference two doubles can have (a        *)
(* subnormal step); DBL_MIN, the least normal double, is more than one     *)
(* such unit, so two numbers can differ by less than DBL_MIN.              *)
(***************************************************************************)
MaxSetting == 2

DBL_MAX == 1000
DBL_MIN == 2

VARIABLES sv_obj, sv_call, sv_inited

svvars == <<sv_obj, sv_call, sv_inited>>

Str(kind, num, e) == [kind |-> kind, num |-> num, e |-> e]
StrNumber(n, e) == Str("number", n, e)

SettingNumbers == -1..MaxSetting

\* The strings handed to set_default and set_value.
SettingStrings ==
    {StrNumber(n, e) : n \in SettingNumbers, e \in BOOLEAN}
        \cup {Str("junk", 0, e) : e \in BOOLEAN}

\* The entries of the parameter list handed to init.
ParamStrings ==
    {StrNumber(n, FALSE) : n \in SettingNumbers}
        \cup {Str("MIN", 0, FALSE), Str("MAX", 0, FALSE), Str("junk", 0, FALSE)}

\* oskar_settings_utility_string_to_double(s, &ok).
oskar_settings_utility_string_to_double(s) ==
    IF s.kind = "number" THEN [d |-> s.num, ok |-> TRUE]
    ELSE [d |-> 0, ok |-> FALSE]

\* oskar_settings_utility_double_to_string_2(d, format): the 'e' format
\* always writes an exponent, the 'g' format only for a number too large
\* to write out.
oskar_settings_utility_double_to_string_2(d, format) ==
    StrNumber(d, format = "e" \/ d = DBL_MAX \/ d = -DBL_MAX)

\* DoubleRange::DoubleRange().
DoubleRange ==
    [type |-> "DoubleRange", format_ |-> "AUTO", min_ |-> -DBL_MAX,
     max_ |-> DBL_MAX, value_ |-> 0, default_ |-> 0]

\* The result of a method: the object afterwards and the value returned.
MethodResult(obj, ok) == [obj |-> obj, ok |-> ok]

\* DoubleRange::init(s), where p is the list of the entries of s.
DoubleRange_init(obj, p) ==
    LET reset == [obj EXCEPT !.min_ = -DBL_MAX, !.max_ = DBL_MAX,
                             !.value_ = 0, !.default_ = 0,
                             !.format_ = "AUTO"]
        lo == oskar_settings_utility_string_to_double(p[1])
        hi == oskar_settings_utility_string_to_double(p[2])
    IN  IF Len(p) = 0 THEN MethodResult(reset, FALSE)
        ELSE IF Len(p) = 1
            THEN IF p[1].kind = "MIN" THEN MethodResult(reset, TRUE)
                 ELSE MethodResult([reset EXCEPT !.min_ = lo.d], lo.ok)
        ELSE IF Len(p) = 2
            THEN LET a == IF p[1].kind = "MIN"
                          THEN [obj |-> reset, ok |-> TRUE]
                          ELSE [obj |-> [reset EXCEPT !.min_ = lo.d],
                                ok |-> lo.ok]
                 IN  IF p[2].kind = "MAX" THEN MethodResult(a.obj, a.ok)
                     ELSE MethodResult([a.obj EXCEPT !.max_ = hi.d], hi.ok)
        ELSE MethodResult(reset, FALSE)

\* DoubleRange::from_string_(value, s): the new contents of value and the
\* value returned.
DoubleRange_from_string_(obj, value, s) ==
    LET r == oskar_settings_utility_string_to_double(s)
        d == r.d
    IN  IF ~r.ok THEN [value |-> value, ok |-> FALSE]
        ELSE IF d >= obj.min_ /\ d <= obj.max_ THEN [value |-> d, ok |-> TRUE]
        ELSE IF d < obj.min_ THEN [value |-> obj.min_, ok |-> FALSE]
        ELSE IF d > obj.max_ THEN [value |-> obj.max_, ok |-> FALSE]
        ELSE [value |-> value, ok |-> FALSE]

\* format_ = (s.find_first_of('e') != npos) ? EXPONENT : AUTO.
DoubleRange_format(s) == IF s.e THEN "EXPONENT" ELSE "AUTO"

DoubleRange_set_default(obj, s) ==
    LET r == DoubleRange_from_string_(obj, obj.default_, s)
        stored == [obj EXCEPT !.format_ = DoubleRange_format(s),
                              !.default_ = r.value]
    IN  IF r.ok THEN MethodResult([stored EXCEPT !.value_ = r.value], TRUE)
        ELSE MethodResult(stored, FALSE)

DoubleRange_get_default(obj) ==
    oskar_settings_utility_double_to_string_2(obj.default_,
        IF obj.format_ = "AUTO" THEN "g" ELSE "e")

DoubleRange_set_value(obj, s) ==
    LET r == DoubleRange_from_string_(obj, obj.value_, s)
    IN  MethodResult([obj EXCEPT !.format_ = DoubleRange_format(s),
                                 !.value_ = r.value], r.ok)

DoubleRange_get_value(obj) ==
    oskar_settings_utility_double_to_string_2(obj.value_,
        IF obj.format_ = "AUTO" THEN "g" ELSE "e")

\* fabs(x).
Fabs(x) == IF x < 0 THEN -x ELSE x

\* With a difference of DBL_MIN itself taken for none.
DoubleRange_is_default_Inclusive(obj) ==
    Fabs(obj.default_ - obj.value_) <= DBL_MIN

DoubleRange_is_default(obj) == Fabs(obj.default_ - obj.value_) < DBL_MIN

(***************************************************************************)
(* OptionList and Bool, as Test_OptionList.cpp and Test_SettingsValue.cpp  *)
(* use them: a value and a default, both replaced by set_default when the  *)
(* string is allowed, the value alone by set_value.                        *)
(***************************************************************************)
OptionList ==
    [type |-> "OptionList", options_ |-> <<>>, value_ |-> "", default_ |-> ""]

\* l.init("a,    b,c"): the options are the entries of the list.
OptionList_init(obj, options) ==
    MethodResult([obj EXCEPT !.options_ = options, !.value_ = "",
                             !.default_ = ""], TRUE)

OptionList_allowed(obj, s) ==
    \E i \in 1..Len(obj.options_) : obj.options_[i] = s

OptionList_set_default(obj, s) ==
    IF OptionList_allowed(obj, s)
    THEN MethodResult([obj EXCEPT !.default_ = s, !.value_ = s], TRUE)
    ELSE MethodResult(obj, FALSE)

OptionList_set_value(obj, s) ==
    IF OptionList_allowed(obj, s)
    THEN MethodResult([obj EXCEPT !.value_ = s], TRUE)
    ELSE MethodResult(obj, FALSE)

OptionList_get_default(obj) == obj.default_

OptionList_is_default(obj) == obj.value_ = obj.default_

Bool == [type |-> "Bool", value_ |-> "false", default_ |-> "false"]

Bool_allowed(s) == s \in {"true", "false"}

Bool_set_default(obj, s) ==
    IF Bool_allowed(s)
    THEN MethodResult([obj EXCEPT !.default_ = s, !.value_ = s], TRUE)
    ELSE MethodResult(obj, FALSE)

Bool_set_value(obj, s) ==
    IF Bool_allowed(s)
    THEN MethodResult([obj EXCEPT !.value_ = s], TRUE)
    ELSE MethodResult(obj, FALSE)

Bool_get_default(obj) == obj.default_

Bool_is_default(obj) == obj.value_ = obj.default_

\* The strings the tests hand to an OptionList and to a Bool.
TestOptions == <<"a", "b", "c">>
OptionStrings == {"a", "b", "c", "z"}
BoolStrings == {"true", "false", "maybe"}

(***************************************************************************)
(* The calls made on the settings object.                                  *)
(***************************************************************************)
NoMethod == [op |-> "constructor", ok |-> TRUE]

\* The record of a call: the method, its argument, what it returned and
\* what get_default() returned just before it.
MethodCall(op, arg, ok, default_before) ==
    [op |-> op, arg |-> arg, ok |-> ok, default_before |-> default_before]

\* sv_inited: whether the last init of the object returned true.
SettingsInit ==
    /\ sv_obj \in {DoubleRange, OptionList, Bool}
    /\ sv_call = NoMethod
    /\ sv_inited = FALSE

SettingsIdle ==
    /\ sv_obj = Bool
    /\ sv_call = NoMethod
    /\ sv_inited = FALSE

DoubleRangeInit ==
    /\ sv_obj.type = "DoubleRange"
    /\ \E n \in 0..3 : \E p \in [1..n -> ParamStrings] :
         \E r \in {DoubleRange_init(sv_obj, p)} :
            /\ sv_obj' = r.obj
            /\ sv_call' = MethodCall("init", p, r.ok,
                                     DoubleRange_get_default(sv_obj))
            /\ sv_inited' = r.ok

DoubleRangeSetDefault ==
    /\ sv_obj.type = "DoubleRange"
    /\ \E s \in SettingStrings :
         \E r \in {DoubleRange_set_default(sv_obj, s)} :
            /\ sv_obj' = r.obj
            /\ sv_call' = MethodCall("set_default", s, r.ok,
                                     DoubleRange_get_default(sv_obj))
            /\ UNCHANGED sv_inited

DoubleRangeSetValue ==
    /\ sv_obj.type = "DoubleRange"
    /\ \E s \in SettingStrings :
         \E r \in {DoubleRange_set_value(sv_obj, s)} :
            /\ sv_obj' = r.obj
            /\ sv_call' = MethodCall("set_value", s, r.ok,
                                     DoubleRange_get_default(sv_obj))
            /\ UNCHANGED sv_inited

OptionListInit ==
    /\ sv_obj.type = "OptionList"
    /\ \E r \in {OptionList_init(sv_obj, TestOptions)} :
            /\ sv_obj' = r.obj
            /\ sv_call' = MethodCall("init", TestOptions, r.ok,
                                     OptionList_get_default(sv_obj))
            /\ sv_inited' = r.ok

OptionListSetDefault ==
    /\ sv_obj.type = "OptionList"
    /\ \E s \in OptionStrings :
         \E r \in {OptionList_set_default(sv_obj, s)} :
            /\ sv_obj' = r.obj
            /\ sv_call' = MethodCall("set_default", s, r.ok,
                                     OptionList_get_default(sv_obj))
            /\ UNCHANGED sv_inited

OptionListSetValue ==
    /\ sv_obj.type = "OptionList"
    /\ \E s \in OptionStrings :
         \E r \in {OptionList_set_value(sv_obj, s)} :
            /\ sv_obj' = r.obj
            /\ sv_call' = MethodCall("set_value", s, r.ok,
                                     OptionList_get_default(sv_obj))
            /\ UNCHANGED sv_inited

BoolSetDefault ==
    /\ sv_obj.type = "Bool"
    /\ \E s \in BoolStrings :
         \E r \in {Bool_set_default(sv_obj, s)} :
            /\ sv_obj' = r.obj
            /\ sv_call' = MethodCall("set_default", s, r.ok,
                                     Bool_get_default(sv_obj))
            /\ UNCHANGED sv_inited

BoolSetValue ==
    /\ sv_obj.type = "Bool"
    /\ \E s \in BoolStrings :
         \E r \in {Bool_set_value(sv_obj, s)} :
            /\ sv_obj' = r.obj
            /\ sv_call' = MethodCall("set_value", s, r.ok,
                                     Bool_get_default(sv_obj))
            /\ UNCHANGED sv_inited
vars == <<apivars, blvars, cwvars, svvars>>

\* The entry points, called one after another.
Init == ApiInit /\ BaselineIdle /\ CorrelateIdle /\ SettingsIdle
Next ==
    \/ CallAutoPower /\ UNCHANGED <<blvars, cwvars, svvars>>
    \/ CallOverridePolarisation /\ UNCHANGED <<blvars, cwvars, svvars>>
    \/ CallVisCreate /\ UNCHANGED <<blvars, cwvars, svvars>>
    \/ CallLoadAscii /\ UNCHANGED <<blvars, cwvars, svvars>>
    \/ Continue /\ UNCHANGED <<blvars, cwvars, svvars>>
Spec == Init /\ [][Next]_vars

\* The workers of the CPU correlator.
InitCorrelate == ApiIdle /\ BaselineIdle /\ CorrelateInit /\ SettingsIdle
NextCorrelate ==
    \/ \E w \in Workers :
            TakeBaseline(w) /\ UNCHANGED <<apivars, blvars, svvars>>
    \/ \E w \in Workers :
            Accumulate(w) /\ UNCHANGED <<apivars, blvars, svvars>>
    \/ \E w \in Workers :
            WriteBaseline(w) /\ UNCHANGED <<apivars, blvars, svvars>>
SpecCorrelate == InitCorrelate /\ [][NextCorrelate]_vars

\* The enumeration of the baselines.
InitBaseline == ApiIdle /\ BaselineInit /\ CorrelateIdle /\ SettingsIdle
NextBaseline ==
    \/ BaselineCount /\ UNCHANGED <<apivars, cwvars, svvars>>
    \/ BaselineStep /\ UNCHANGED <<apivars, cwvars, svvars>>
    \/ BaselineDone /\ UNCHANGED <<apivars, cwvars, svvars>>
SpecBaseline == InitBaseline /\ [][NextBaseline]_vars

\* The calls on a settings object.
InitLoad == ApiInit /\ BaselineIdle /\ CorrelateIdle /\ SettingsIdle

NextLoad ==
    \/ CallLoadAsciiFile /\ UNCHANGED <<blvars, cwvars, svvars>>
    \/ StartOver /\ UNCHANGED <<blvars, cwvars, svvars>>

SpecLoad == InitLoad /\ [][NextLoad]_vars

InitSettings == ApiIdle /\ BaselineIdle /\ CorrelateIdle /\ SettingsInit
NextSettings ==
    \/ DoubleRangeInit /\ UNCHANGED <<apivars, blvars, cwvars>>
    \/ DoubleRangeSetDefault /\ UNCHANGED <<apivars, blvars, cwvars>>
    \/ DoubleRangeSetValue /\ UNCHANGED <<apivars, blvars, cwvars>>
    \/ OptionListInit /\ UNCHANGED <<apivars, blvars, cwvars>>
    \/ OptionListSetDefault /\ UNCHANGED <<apivars, blvars, cwvars>>
    \/ OptionListSetValue /\ UNCHANGED <<apivars, blvars, cwvars>>
    \/ BoolSetDefault /\ UNCHANGED <<apivars, blvars, cwvars>>
    \/ BoolSetValue /\ UNCHANGED <<apivars, blvars, cwvars>>
SpecSettings == InitSettings /\ [][NextSettings]_vars

(***************************************************************************)
(* Properties of the entry points.                                         *)
(***************************************************************************)
IsCall(fn) == call.fn = fn

\* The arrays handed to the last oskar_mem_load_ascii call.
GivenArrays == [i \in 1..Len(call.args) |-> call.args[i].mem]

KernelEvents == SelectSeq(events, LAMBDA e : e.ev = "kernel")

\* C1: oskar_evaluate_auto_power, oskar_sky_override_polarisation and
\* oskar_mem_load_ascii, called with a non-zero status, leave the status
\* as it was, write no element of the buffer, sky model or arrays they were
\* given, run no kernel and open no file (the call has no events at all),
\* and oskar_mem_load_ascii returns 0.
C1_ShortCircuit ==
    /\ (IsCall("oskar_evaluate_auto_power") /\ call.in_status # OSKAR_SUCCESS)
        => (status = call.in_status /\ dst = call.dst /\ events = <<>>)
    /\ (IsCall("oskar_sky_override_polarisation")
            /\ call.in_status # OSKAR_SUCCESS)
        => (status = call.in_status /\ dst = call.dst /\ events = <<>>)
    /\ (IsCall("oskar_mem_load_ascii") /\ call.in_status # OSKAR_SUCCESS)
        => (/\ status = call.in_status
            /\ dst.mem = GivenArrays
            /\ events = <<>>
            /\ ret.value = 0)

\* A call of oskar_mem_load_ascii with a non-zero status on a file that
\* exists and has a line to read.
C1_Witness ==
    /\ IsCall("oskar_mem_load_ascii")
    /\ call.in_status # OSKAR_SUCCESS
    /\ call.file_exists
    /\ Len(call.lines) > 0

\* C2 as stated: buffers of different element types give
\* OSKAR_ERR_BAD_DATA_TYPE, buffers of one type in different locations give
\* OSKAR_ERR_LOCATION_MISMATCH, and in both cases no kernel runs and the
\* output buffer is unchanged.
C2_Original ==
    (IsCall("oskar_evaluate_auto_power") /\ call.in_status = OSKAR_SUCCESS)
    => /\ (call.jones.type # call.dst.type)
            => (/\ status = OSKAR_ERR_BAD_DATA_TYPE
                /\ KernelEvents = <<>>
                /\ dst = call.dst)
       /\ (call.jones.type = call.dst.type
            /\ call.jones.location # call.dst.location)
            => (/\ status = OSKAR_ERR_LOCATION_MISMATCH
                /\ KernelEvents = <<>>
                /\ dst = call.dst)

\* C2, amended: buffers of different element types give
\* OSKAR_ERR_TYPE_MISMATCH; buffers of one type in different locations give
\* OSKAR_ERR_LOCATION_MISMATCH; in both cases no kernel runs and the output
\* buffer is unchanged.
C2_Mismatch ==
    (IsCall("oskar_evaluate_auto_power") /\ call.in_status = OSKAR_SUCCESS)
    => /\ (call.jones.type # call.dst.type)
            => (/\ status = OSKAR_ERR_TYPE_MISMATCH
                /\ KernelEvents = <<>>
                /\ dst = call.dst)
       /\ (call.jones.type = call.dst.type
            /\ call.jones.location # call.dst.location)
            => (/\ status = OSKAR_ERR_LOCATION_MISMATCH
                /\ KernelEvents = <<>>
                /\ dst = call.dst)

\* A call with a double complex Jones buffer and a single complex output
\* buffer, both in CPU memory, where the kernel would have had sources to
\* write.
C2_Witness ==
    /\ IsCall("oskar_evaluate_auto_power")
    /\ call.in_status = OSKAR_SUCCESS
    /\ call.jones.type = OSKAR_DOUBLE_COMPLEX
    /\ call.dst.type = OSKAR_SINGLE_COMPLEX
    /\ call.jones.location = OSKAR_CPU
    /\ call.dst.location = OSKAR_CPU
    /\ call.num_sources > 0
    /\ status = OSKAR_ERR_TYPE_MISMATCH

\* The eight supported combinations; the GPU ones need a build with CUDA.
ComplexTypes ==
    {OSKAR_SINGLE_COMPLEX, OSKAR_DOUBLE_COMPLEX,
     OSKAR_SINGLE_COMPLEX_MATRIX, OSKAR_DOUBLE_COMPLEX_MATRIX}

Supported(type, location) ==
    /\ type \in ComplexTypes
    /\ location = OSKAR_CPU \/ (location = OSKAR_GPU /\ have_cuda)

MatchingCall ==
    /\ IsCall("oskar_evaluate_auto_power")
    /\ call.in_status = OSKAR_SUCCESS
    /\ call.jones.type = call.dst.type
    /\ call.jones.location = call.dst.location

\* C3: for a (type, location) pair shared by jones and out that is not
\* supported, the call ends with a non-zero status, having run no kernel
\* and written nothing to out; and whenever a call with a zero status ends
\* with a zero status, exactly one kernel has run.
C3_Unsupported ==
    /\ (MatchingCall /\ ~Supported(call.jones.type, call.jones.location))
        => (/\ status \in {OSKAR_ERR_BAD_DATA_TYPE, OSKAR_ERR_CUDA_NOT_AVAILABLE}
            /\ KernelEvents = <<>>
            /\ dst = call.dst)
    /\ (IsCall("oskar_evaluate_auto_power") /\ call.in_status = OSKAR_SUCCESS
            /\ status = OSKAR_SUCCESS)
        => Len(KernelEvents) = 1

\* The kernel for a precision, a shape and a backend.
KernelFor(type, location) ==
    [ev |-> "kernel",
     name |-> CASE type.matrix /\ location = OSKAR_CPU
                    -> IF type.base = "OSKAR_DOUBLE"
                       THEN "oskar_evaluate_auto_power_d"
                       ELSE "oskar_evaluate_auto_power_f"
                [] type.matrix /\ location = OSKAR_GPU
                    -> IF type.base = "OSKAR_DOUBLE"
                       THEN "oskar_evaluate_auto_power_cuda_d"
                       ELSE "oskar_evaluate_auto_power_cuda_f"
                [] ~type.matrix /\ location = OSKAR_CPU
                    -> IF type.base = "OSKAR_DOUBLE"
                       THEN "oskar_evaluate_auto_power_scalar_d"
                       ELSE "oskar_evaluate_auto_power_scalar_f"
                [] ~type.matrix /\ location = OSKAR_GPU
                    -> IF type.base = "OSKAR_DOUBLE"
                       THEN "oskar_evaluate_auto_power_scalar_cuda_d"
                       ELSE "oskar_evaluate_auto_power_scalar_cuda_f",
     num_sources |-> call.num_sources]

\* C4: for each supported combination, a call with a zero status and
\* matching tags runs one kernel once, the one of the buffers' precision,
\* shape and backend, with num_sources as it was passed, and nothing else.
C4_Dispatch ==
    (MatchingCall /\ Supported(call.jones.type, call.jones.location))
    => events = <<KernelFor(call.jones.type, call.jones.location)>>

\* A call on double complex matrices in GPU memory, in a build with CUDA.
C4_Witness ==
    /\ MatchingCall
    /\ have_cuda
    /\ call.jones.type = OSKAR_DOUBLE_COMPLEX_MATRIX
    /\ call.jones.location = OSKAR_GPU
    /\ call.num_sources = MaxSources
    /\ Len(events) = 1

\* An amplitude type oskar_vis_create does not take: not single or double
\* precision, or not complex.
BadAmpType(t) == t.base \notin {"OSKAR_SINGLE", "OSKAR_DOUBLE"} \/ ~t.complex

HasEvent(name) == \E k \in 1..Len(events) : events[k].ev = name

MallocFailed ==
    \E k \in 1..Len(events) : events[k].ev = "malloc" /\ ~events[k].ok

CreateEvents == SelectSeq(events, LAMBDA e : e.ev = "oskar_mem_create")

\* C6: oskar_vis_create, called with a non-zero status, returns the null
\* handle, creates nothing and leaves the status as it was.  (Stated for
\* the calls in which malloc does not fail.)
C6_VisShortCircuit ==
    (IsCall("oskar_vis_create") /\ call.in_status # OSKAR_SUCCESS
        /\ ~MallocFailed)
    => (ret = NULL /\ status = call.in_status /\ events = <<>>)

\* C7: oskar_vis_create looks at its tags before it allocates anything.  An
\* amplitude type that is not single or double precision, or not complex,
\* gives OSKAR_ERR_BAD_DATA_TYPE, also when the location is wrong too; a
\* good amplitude type with a location other than CPU or GPU gives
\* OSKAR_ERR_BAD_LOCATION.  Either way the null handle is returned and
\* nothing has been allocated.
C7_VisValidation ==
    IsCall("oskar_vis_create")
    => /\ BadAmpType(call.amp_type)
            => (/\ status = OSKAR_ERR_BAD_DATA_TYPE
                /\ ret = NULL
                /\ events = <<>>)
       /\ (~BadAmpType(call.amp_type)
                /\ call.location \notin {OSKAR_CPU, OSKAR_GPU})
            => (/\ status = OSKAR_ERR_BAD_LOCATION
                /\ ret = NULL
                /\ events = <<>>)

\* A call with a real (not complex) amplitude type and a location that is
\* neither CPU nor GPU: the type is reported.
C7_Witness ==
    /\ IsCall("oskar_vis_create")
    /\ call.in_status = OSKAR_SUCCESS
    /\ call.amp_type = OSKAR_DOUBLE
    /\ call.location = OSKAR_CL
    /\ status = OSKAR_ERR_BAD_DATA_TYPE
    /\ ret = NULL

\* C8: oskar_vis_create never stores through a null structure pointer; when
\* the allocation of the structure fails, or that of one of its buffers,
\* the status is OSKAR_ERR_MEMORY_ALLOC_FAILURE.
C8_VisAllocation ==
    IsCall("oskar_vis_create")
    => /\ ~HasEvent("null_write")
       /\ ret # Crashed
       /\ MallocFailed
            => (status = OSKAR_ERR_MEMORY_ALLOC_FAILURE /\ ret = NULL)
       /\ (call.in_status = OSKAR_SUCCESS
            /\ (call.location = OSKAR_GPU => have_cuda)
            /\ \E k \in 1..Len(CreateEvents) :
                    /\ CreateEvents[k].num_elements > 0
                    /\ CreateEvents[k].status # OSKAR_SUCCESS)
            => status = OSKAR_ERR_MEMORY_ALLOC_FAILURE

\* C9: oskar_vis_create with accepted tags and a negative num_channels,
\* num_times or num_stations ends with OSKAR_ERR_DIMENSION_MISMATCH and has
\* created no buffer; it never asks oskar_mem_create for a negative number
\* of elements, and never gives a positive num_baselines for a negative
\* num_stations.  (Stated for the calls in which malloc does not fail.)
C9_VisDimensions ==
    (IsCall("oskar_vis_create") /\ ~MallocFailed)
    => /\ (~BadAmpType(call.amp_type)
            /\ call.location \in {OSKAR_CPU, OSKAR_GPU}
            /\ (call.num_channels < 0 \/ call.num_times < 0
                    \/ call.num_stations < 0))
            => (/\ status = OSKAR_ERR_DIMENSION_MISMATCH
                /\ CreateEvents = <<>>)
       /\ \A k \in 1..Len(CreateEvents) : CreateEvents[k].num_elements >= 0
       /\ (ret.kind = "oskar_Vis" /\ call.num_stations < 0)
            => ret.num_baselines <= 0

(***************************************************************************)
(* Properties of the canonical baseline order.                             *)
(***************************************************************************)
StationPairs(n) == {p \in (0..n-1) \X (0..n-1) : p[1] < p[2]}

\* C5: the canonical enumeration of the pairs of N stations hands out the
\* consecutive indices from 0; when it ends it has given the indices
\* 0..N(N-1)/2-1, each pair (i < j) has exactly one index and each index
\* exactly one pair; and num_baselines as oskar_vis_create computes it, and
\* num_vis as the benchmark computes it, are this number of pairs.
C5_CanonicalOrder ==
    LET n == bl_num_stations
        m == (n * (n - 1)) \div 2
    IN  /\ bl_pc \in {"loop", "done"}
            => /\ {r.b : r \in bl_index} = 0..(bl_b - 1)
               /\ Cardinality(bl_index) = bl_b
               /\ Cardinality({<<r.i, r.j>> : r \in bl_index}) = bl_b
        /\ bl_pc = "done"
            => /\ {r.b : r \in bl_index} = 0..(m - 1)
               /\ {<<r.i, r.j>> : r \in bl_index} = StationPairs(n)
               /\ Cardinality(bl_index) = m
               /\ Cardinality(StationPairs(n)) = m
               /\ bl_num_baselines = m
               /\ bl_num_vis = m

\* The enumeration for the largest number of stations has ended.
C5_Witness ==
    /\ bl_pc = "done"
    /\ bl_num_stations = MaxEnumStations
    /\ bl_b = Cardinality(StationPairs(MaxEnumStations))
    /\ bl_b > 1

(***************************************************************************)
(* Properties of the CPU path of the correlator.                           *)
(***************************************************************************)
\* The sequential loop: the baselines in canonical order, each the sum of
\* its sources in ascending order, stored at the running index.
RECURSIVE SequentialRow(_, _, _, _)
SequentialRow(i, j, n, num_sources) ==
    IF j >= n THEN <<>>
    ELSE <<[s \in 1..num_sources |-> Term(i, j, s - 1)]>>
            \o SequentialRow(i, j + 1, n, num_sources)

RECURSIVE SequentialLoop(_, _, _)
SequentialLoop(i, n, num_sources) ==
    IF i >= n - 1 THEN <<>>
    ELSE SequentialRow(i, i + 1, n, num_sources)
            \o SequentialLoop(i + 1, n, num_sources)

CorrelateDone ==
    /\ cw_todo = {}
    /\ \A w \in Workers : cw_worker[w].pc = "idle"

\* C10: with the baselines shared out among concurrent workers, no output
\* slot is ever stored to twice, and no two workers are at work on the
\* same slot; a worker's
\* accumulator holds terms of its own baseline only, added in ascending
\* order of source; the inputs are never written; and when all baselines
\* are done every slot has been stored to exactly once and the output is
\* what the sequential loop in canonical order gives, whatever the
\* interleaving was.
C10_Workers ==
    LET seq == SequentialLoop(0, cw_num_stations, cw_num_sources)
    IN  /\ \A b \in DOMAIN cw_out : cw_out[b].stores <= 1
        /\ \A v, w \in Workers :
                (v # w /\ cw_worker[v].pc # "idle" /\ cw_worker[w].pc # "idle")
                => BaselineIndex(cw_worker[v].i, cw_worker[v].j, cw_num_stations)
                    # BaselineIndex(cw_worker[w].i, cw_worker[w].j,
                                    cw_num_stations)
        /\ \A w \in Workers :
                cw_worker[w].acc =
                    [s \in 1..cw_worker[w].s |->
                        Term(cw_worker[w].i, cw_worker[w].j, s - 1)]
        /\ \A b \in DOMAIN cw_out :
                cw_out[b].stores > 0 => cw_out[b].value = seq[b + 1]
        /\ CorrelateDone
            => /\ \A b \in DOMAIN cw_out : cw_out[b].stores = 1
               /\ DOMAIN cw_out = 0..(Len(seq) - 1)
               /\ \A b \in DOMAIN cw_out : cw_out[b].value = seq[b + 1]

\* In the largest case two workers are part way through the sources of
\* two baselines while a third baseline has already been stored.
C10_Witness ==
    /\ cw_num_stations = CorrStations
    /\ cw_num_sources = CorrSources
    /\ \E v, w \in Workers :
            /\ v # w
            /\ cw_worker[v].pc = "sources" /\ cw_worker[v].s > 0
            /\ cw_worker[w].pc = "sources" /\ cw_worker[w].s > 0
            /\ cw_worker[v].s # cw_worker[w].s
    /\ \E b \in DOMAIN cw_out :
            cw_out[b].stores = 1 /\ Len(cw_out[b].value) = CorrSources

(***************************************************************************)
(* Properties of the settings types.                                       *)
(***************************************************************************)
IsDefault(obj) ==
    CASE obj.type = "DoubleRange" -> DoubleRange_is_default(obj)
      [] obj.type = "OptionList" -> OptionList_is_default(obj)
      [] obj.type = "Bool" -> Bool_is_default(obj)

GetDefault(obj) ==
    CASE obj.type = "DoubleRange" -> DoubleRange_get_default(obj)
      [] obj.type = "OptionList" -> OptionList_get_default(obj)
      [] obj.type = "Bool" -> Bool_get_default(obj)

\* Whether the string last handed to the object spells its default.
ArgSpellsDefault ==
    IF sv_obj.type = "DoubleRange"
    THEN sv_call.arg.kind = "number" /\ sv_call.arg.num = sv_obj.default_
    ELSE sv_call.arg = sv_obj.default_

\* Whether the string last handed to the object spells its default or, for
\* a DoubleRange, a number less than DBL_MIN away from it.
ArgWithinDefault ==
    IF sv_obj.type = "DoubleRange"
    THEN /\ sv_call.arg.kind = "number"
         /\ Fabs(sv_call.arg.num - sv_obj.default_) < DBL_MIN
    ELSE sv_call.arg = sv_obj.default_

\* C11 as stated: is_default() is true right after construction and after
\* init, and right after every set_default that returned true; after a
\* set_value that returned true it is false when the value set differs from
\* the default and true when the value set is the default.
C11_Original ==
    /\ sv_call.op \in {"constructor", "init"} => IsDefault(sv_obj)
    /\ (sv_call.op = "set_default" /\ sv_call.ok) => IsDefault(sv_obj)
    /\ (sv_call.op = "set_value" /\ sv_call.ok)
        => (IsDefault(sv_obj) <=> ArgSpellsDefault)

\* C11, amended: is_default() is true right after construction and after
\* init, and right after every set_default that returned true; after a
\* set_value that returned true it is true when the value set is the
\* default or, for a DoubleRange, less than DBL_MIN away from the default,
\* and false otherwise.
C11_IsDefault ==
    /\ sv_call.op \in {"constructor", "init"} => IsDefault(sv_obj)
    /\ (sv_call.op = "set_default" /\ sv_call.ok) => IsDefault(sv_obj)
    /\ (sv_call.op = "set_value" /\ sv_call.ok)
        => (IsDefault(sv_obj) <=> ArgWithinDefault)

\* A DoubleRange whose default has been set to -1 and whose value has then
\* been set to 1.
C11_Witness ==
    /\ sv_obj.type = "DoubleRange"
    /\ sv_call.op = "set_value"
    /\ sv_call.ok
    /\ sv_obj.default_ = -1
    /\ sv_obj.value_ = 1
    /\ ~DoubleRange_is_default(sv_obj)

\* C12: a set_default that returns false leaves the default as it was:
\* get_default() returns after the call the string it returned before.
C12_FailedSetDefault ==
    (sv_call.op = "set_default" /\ ~sv_call.ok)
    => GetDefault(sv_obj) = sv_call.default_before

\* What an entry of the parameter list stands for as the lower and as the
\* upper end of the range; an entry that stands for nothing does not parse.
ParsesAsMin(s) == s.kind \in {"number", "MIN"}
ParsesAsMax(s) == s.kind \in {"number", "MAX"}
MinOf(s) == IF s.kind = "MIN" THEN -DBL_MAX ELSE s.num
MaxOf(s) == IF s.kind = "MAX" THEN DBL_MAX ELSE s.num

\* C20: DoubleRange::init with no entry leaves the range at
\* (-DBL_MAX, DBL_MAX), with one entry makes it (p[0], DBL_MAX), with two
\* (p[0], p[1]), MIN and MAX standing for -DBL_MAX and DBL_MAX; in these
\* three cases it returns true when the entries parse; with more than two
\* entries it returns false; and it always resets value and default to 0.
C20_Init ==
    (sv_obj.type = "DoubleRange" /\ sv_call.op = "init")
    => LET p == sv_call.arg
       IN  /\ sv_obj.value_ = 0
           /\ sv_obj.default_ = 0
           /\ Len(p) = 0
                => (/\ sv_call.ok
                    /\ sv_obj.min_ = -DBL_MAX
                    /\ sv_obj.max_ = DBL_MAX)
           /\ (Len(p) = 1 /\ ParsesAsMin(p[1]))
                => (/\ sv_call.ok
                    /\ sv_obj.min_ = MinOf(p[1])
                    /\ sv_obj.max_ = DBL_MAX)
           /\ (Len(p) = 2 /\ ParsesAsMin(p[1]) /\ ParsesAsMax(p[2]))
                => (/\ sv_call.ok
                    /\ sv_obj.min_ = MinOf(p[1])
                    /\ sv_obj.max_ = MaxOf(p[2]))
           /\ Len(p) > 2 => ~sv_call.ok

(***************************************************************************)
(* Properties of oskar_mem_load_ascii.                                     *)
(***************************************************************************)
\* A call of oskar_mem_load_ascii made with a status of zero on a file that
\* could be opened.
Loaded ==
    /\ IsCall("oskar_mem_load_ascii")
    /\ call.in_status = OSKAR_SUCCESS
    /\ call.file_exists

ArgType(k) == oskar_mem_type(call.args[k].mem)

\* The total column width of the first n arrays given without defaults.
RECURSIVE WidthWithoutDefaults(_)
WidthWithoutDefaults(n) ==
    IF n = 0 THEN 0
    ELSE WidthWithoutDefaults(n - 1)
            + (IF call.args[n].def = <<>> THEN NumColsNeeded(ArgType(n))
               ELSE 0)

ColsMin == WidthWithoutDefaults(Len(call.args))

\* The lines of the file with at least ColsMin numbers, in file order.
RECURSIVE AcceptedUpTo(_)
AcceptedUpTo(n) ==
    IF n = 0 THEN <<>>
    ELSE IF Len(call.lines[n]) >= ColsMin
        THEN Append(AcceptedUpTo(n - 1), call.lines[n])
    ELSE AcceptedUpTo(n - 1)

Accepted == AcceptedUpTo(Len(call.lines))

\* c_k: the sum of the widths of the arrays before array k.
RECURSIVE ColumnStart(_)
ColumnStart(k) ==
    IF k = 1 THEN 0
    ELSE ColumnStart(k - 1) + NumColsNeeded(ArgType(k - 1))

\* The element of array k that a line gives: its columns c_k + 1 ...
\* c_k + w_k, a column the line does not have being the default given for
\* it; an integer array holds the nearest whole number.
ExpectedElement(k, line) ==
    LET column(j) == IF ColumnStart(k) + j <= Len(line)
                     THEN line[ColumnStart(k) + j]
                     ELSE call.args[k].def[j]
    IN  IF ArgType(k) = OSKAR_INT THEN <<(column(1) + 1) \div 2>>
        ELSE [j \in 1..NumColsNeeded(ArgType(k)) |-> column(j)]

\* The events of one kind, in order.
EventsOf(kind) == SelectSeq(events, LAMBDA e : e.ev = kind)

\* The rows at which array k was stored into, in order.
RowsStored(k) ==
    LET stores == SelectSeq(events,
                    LAMBDA e : e.ev = "store" /\ e.array = k)
    IN  [i \in 1..Len(stores) |-> stores[i].row]

\* C13: when oskar_mem_load_ascii returns with status 0 it returns the
\* number of lines with at least num_cols_min numbers; the accepted lines
\* are stored at rows 0, 1, 2, ... in file order, a skipped line taking up
\* no row; and every array is left with as many elements as rows returned.
C13_RowCount ==
    (Loaded /\ status = OSKAR_SUCCESS)
    => /\ ret.value = Len(Accepted)
       /\ \A k \in 1..Len(call.args) :
            /\ Len(dst.mem[k].data) = ret.value
            /\ RowsStored(k) = [i \in 1..Len(Accepted) |-> i - 1]
            /\ \A r \in 1..Len(Accepted) :
                 dst.mem[k].data[r] = ExpectedElement(k, Accepted[r])

\* A file of two lines of which the first is skipped and the second is
\* stored, at row 0, into two arrays in GPU memory.
C13_Witness ==
    /\ Loaded
    /\ status = OSKAR_SUCCESS
    /\ Len(call.lines) = 2
    /\ Len(call.lines[1]) < ColsMin
    /\ ret.value = 1
    /\ Len(call.args) = 2
    /\ oskar_mem_location(call.args[1].mem) = OSKAR_GPU
    /\ oskar_mem_length(call.args[1].mem) = 1
    /\ dst.mem[2].data[1] = ExpectedElement(2, call.lines[2])

\* Whether every array is of a type store_data has a case for.
AllStorable == \A k \in 1..Len(call.args) : ArgType(k) \in StoreTypes

\* Whether the array is where the call can see what was stored into it: in
\* CPU memory, or anywhere once the call has succeeded.
Visible(k) ==
    \/ status = OSKAR_SUCCESS
    \/ oskar_mem_location(call.args[k].mem) = OSKAR_CPU

\* C14: where array k is stored into for an accepted row, the element is
\* built from the row's columns c_k .. c_k + w_k - 1, c_k being the sum of
\* the widths of the arrays before k; a column the line does not have is the
\* default given for it; and what was stored for a row is still there when
\* the call returns, however the array has grown since.
C14_Columns ==
    (Loaded /\ AllStorable)
    => \A i \in 1..Len(events) :
         LET e == events[i]
         IN  e.ev = "store"
             => /\ e.col = ColumnStart(e.array)
                /\ e.row + 1 <= Len(Accepted)
                /\ Visible(e.array)
                    => dst.mem[e.array].data[e.row + 1]
                        = ExpectedElement(e.array, Accepted[e.row + 1])

\* Two rows stored into an integer array and a complex matrix array that
\* start with one element; the matrix takes two numbers of the line and six
\* defaults, and both arrays are grown for the second row.
C14_Witness ==
    /\ Loaded
    /\ status = OSKAR_SUCCESS
    /\ ret.value = 2
    /\ Len(call.args) = 2
    /\ ArgType(1) = OSKAR_INT
    /\ ArgType(2) = OSKAR_DOUBLE_COMPLEX_MATRIX
    /\ oskar_mem_length(call.args[1].mem) = 1
    /\ Len(call.lines[1]) = 3
    /\ Len(EventsOf("realloc")) = 2
    /\ dst.mem[2].data[1] = ExpectedElement(2, call.lines[1])
    /\ dst.mem[2].data[1][2] = call.lines[1][3]
    /\ dst.mem[2].data[1][3] = call.args[2].def[3]

\* Whether array k is the first in argument order whose default string the
\* set-up rejects, and for which reason.
NumDefaults(k) ==
    IF Len(call.args[k].def) <= NumColsNeeded(ArgType(k))
    THEN Len(call.args[k].def) ELSE NumColsNeeded(ArgType(k))

NoneAfterSome(k) ==
    /\ NumDefaults(k) = 0
    /\ \E j \in 1..(k - 1) : NumDefaults(j) # 0

WrongNumber(k) ==
    /\ NumDefaults(k) # 0
    /\ NumDefaults(k) # NumColsNeeded(ArgType(k))

FirstRejected(k) ==
    /\ NoneAfterSome(k) \/ WrongNumber(k)
    /\ \A j \in 1..(k - 1) : ~(NoneAfterSome(j) \/ WrongNumber(j))

\* A call during which the allocator served every request.
LoadedUnhindered ==
    /\ Loaded
    /\ call.allocator.alloc_fail = "none"
    /\ call.allocator.grow_fail = -1

NothingStored ==
    /\ EventsOf("store") = <<>>
    /\ ret.value = 0
    /\ \A k \in 1..Len(call.args) : dst.mem[k] = call.args[k].mem

C16_InBounds ==
    Loaded
    => \A i \in 1..Len(events) :
         LET e == events[i]
         IN  /\ e.ev = "store" => e.length > e.row
             /\ e.ev = "realloc"
                 => /\ oskar_mem_length(call.args[e.array].mem)
                        <= e.num_elements - GrowBy
                    /\ e.status # OSKAR_SUCCESS => i = Len(events)
             /\ e.ev = "default"
                 => /\ e.col >= ColsMin
                    /\ e.value # <<Unset>>

\* A second row that is stored after the array was grown from one element
\* to 101, with a default copied into the row.
C16_Witness ==
    /\ Loaded
    /\ \E i \in 1..Len(events) : \E j \in (i + 1)..Len(events) :
         /\ events[i].ev = "realloc"
         /\ events[i].num_elements = 1 + GrowBy
         /\ events[i].status = OSKAR_SUCCESS
         /\ events[j].ev = "store"
         /\ events[j].row = 1
         /\ events[j].length = 1 + GrowBy
    /\ \E i \in 1..Len(events) :
         events[i].ev = "default" /\ events[i].row = 1

\* C17: once the status is non-zero within a row nothing more is stored
\* into any array, and the row in which the error occurred is not counted
\* in the value returned.
C17_ErrorStops ==
    Loaded
    => \A i \in 1..Len(events) :
         LET e == events[i]
         IN  /\ e.ev = "store" => e.status = OSKAR_SUCCESS
             /\ (e.ev = "realloc" /\ e.status # OSKAR_SUCCESS)
                 => ret.value <= e.num_elements - GrowBy

(***************************************************************************)
(* Properties of the structure oskar_vis_create returns.                   *)
(***************************************************************************)
\* A call of oskar_vis_create that succeeded.
VisCreated ==
    /\ IsCall("oskar_vis_create")
    /\ status = OSKAR_SUCCESS
    /\ ret.kind = "oskar_Vis"

\* The precision of amp_type: double if amp_type is double, else single.
PrecisionOf(amp_type) ==
    IF amp_type.base = "OSKAR_DOUBLE" THEN OSKAR_DOUBLE ELSE OSKAR_SINGLE

\* Whether buffer k of the structure has the given type, place and length.
BufferIs(k, type, location, length) ==
    /\ oskar_mem_type(ret.buffers[k]) = type
    /\ oskar_mem_location(ret.buffers[k]) = location
    /\ oskar_mem_length(ret.buffers[k]) = length

\* C18: on success the amplitude buffer has type amp_type, the location
\* asked for and num_channels * num_times * num_baselines elements; the
\* three baseline coordinate buffers have num_times * num_baselines
\* elements and the ten station arrays num_stations, all of the precision
\* of amp_type and at the location asked for; the three character buffers
\* are in CPU memory and empty; and every field of the meta-data is 0.
C18_VisStructure ==
    VisCreated
    => LET num_baselines == Cardinality(StationPairs(call.num_stations))
           real == PrecisionOf(call.amp_type)
       IN  /\ BufferIs(17, call.amp_type, call.location,
                       call.num_channels * call.num_times * num_baselines)
           /\ \A k \in 14..16 :
                BufferIs(k, real, call.location,
                         call.num_times * num_baselines)
           /\ \A k \in 4..13 :
                BufferIs(k, real, call.location, call.num_stations)
           /\ \A k \in 1..3 : BufferIs(k, OSKAR_CHAR, OSKAR_CPU, 0)
           /\ \A f \in DOMAIN ret.meta : ret.meta[f] = 0
           /\ Cardinality(DOMAIN ret.meta) = 11

\* A structure for three stations, two channels and one time in GPU
\* memory, with double precision matrix amplitudes: six amplitudes and
\* three coordinates of each kind.
C18_Witness ==
    /\ VisCreated
    /\ call.amp_type = OSKAR_DOUBLE_COMPLEX_MATRIX
    /\ call.location = OSKAR_GPU
    /\ call.num_stations = 3
    /\ call.num_channels = 2
    /\ call.num_times = 1
    /\ oskar_mem_length(ret.buffers[17]) = 6
    /\ oskar_mem_length(ret.buffers[14]) = 3
    /\ oskar_mem_type(ret.buffers[14]) = OSKAR_DOUBLE

\* C19: oskar_vis_create returns a structure exactly when the status is 0
\* on return: whenever a check or a buffer creation leaves a non-zero
\* status the caller receives a null handle.  (Stated for the calls in
\* which malloc does not fail.)
C19_NullOnFailure ==
    (IsCall("oskar_vis_create") /\ ~MallocFailed)
    => (ret.kind = "oskar_Vis" <=> status = OSKAR_SUCCESS)

\* C21: once init has returned true, and whatever set_default and set_value
\* calls follow, a DoubleRange has min_ <= max_ and holds its value and its
\* default within [min_, max_].
C21_WithinRange ==
    (sv_obj.type = "DoubleRange" /\ sv_inited)
    => /\ sv_obj.min_ <= sv_obj.max_
       /\ sv_obj.min_ <= sv_obj.value_ /\ sv_obj.value_ <= sv_obj.max_
       /\ sv_obj.min_ <= sv_obj.default_ /\ sv_obj.default_ <= sv_obj.max_

====
